---- MODULE Spec2Model ----
(***************************************************************************)
(* DataQualityChecker (src/scripts/data_quality_ckeck.py) and its driver   *)
(* main (src/main.py) as a state machine.                                  *)
(*                                                                         *)
(* Decoded JSON values are tagged records:                                 *)
(*   Str(s)      a Python str                                              *)
(*   Num(m, e)   the Python number m * 10^e (int or float; e > 0 is used   *)
(*               only for magnitudes beyond 32 bits, such as epoch         *)
(*               timestamps, so every number is written in one way)        *)
(*   Bool(b)     True / False        Null        None                      *)
(*   List(xs)    a list, xs the sequence of its items                      *)
(*   Dict(ps)    a dict, ps the sequence of its <<key, value>> pairs in    *)
(*               insertion order, keys distinct                            *)
(* Strings are TLA+ strings; paths and names are built by concatenation    *)
(* as the f-strings of the source build them.                              *)
(***************************************************************************)
EXTENDS Integers, Sequences, FiniteSets, TLC

VARIABLES
    file_path,      \* DataQualityChecker.file_path
    file,           \* what is on disk at file_path: Missing, or its lines
    entity,         \* DataQualityChecker.entity
    data,           \* DataQualityChecker.data: None, or List of the records
    expected_keys,  \* check_json_quality's local expected_keys
    index,          \* check_json_quality's loop position (0-based)
    log,            \* the records handed to logger, in emission order
    exc,            \* the exception that left the running method, or NoExc
    pc,             \* position of the run
    arg,            \* argument of a method called on its own
    ret             \* value returned by a method called on its own

vars == <<file_path, file, entity, data, expected_keys, index, log, exc, pc, arg, ret>>

-----------------------------------------------------------------------------
(* Bounds of the model *)

MaxLines == 2        \* lines of the input file
MaxIds == 5          \* length of the list handed to find_duplicates
MaxRecords == 4      \* records of a collection handed to check_id_uniqueness
MaxIndex == 1        \* largest line index handed to a per-record check
MaxItems == 2        \* entries of a dict / items of a list in a scanned structure
MaxInner == 1        \* entries of a dict / items of a list nested in another
MaxDateFields == 2   \* date fields present in a record handed to the date check

-----------------------------------------------------------------------------
(* JSON values *)

Str(s) == [t |-> "str", v |-> s]
Num(m, e) == [t |-> "num", m |-> m, e |-> e]
PyInt(n) == Num(n, 0)
Bool(b) == [t |-> "bool", v |-> b]
Null == [t |-> "null"]
List(xs) == [t |-> "list", v |-> xs]
Dict(ps) == [t |-> "dict", v |-> ps]

None == [t |-> "None"]
NoExc == "none"
\* what open(file_path) finds: no file, or a file with these lines
Missing == [exists |-> FALSE, lines |-> <<>>]
OnDisk(ls) == [exists |-> TRUE, lines |-> ls]

Range(s) == {s[i] : i \in DOMAIN s}

\* dict.keys(), key in dict, dict[key]
Keys(d) == {d.v[i][1] : i \in DOMAIN d.v}
Has(d, k) == k \in Keys(d)
Get(d, k) == d.v[CHOOSE i \in DOMAIN d.v : d.v[i][1] = k][2]

\* isinstance(value, (int, float)): bool is a subclass of int
IsNumber(x) == x.t \in {"num", "bool"}
\* the number a bool stands for in arithmetic and comparisons
AsNum(x) == IF x.t = "bool" THEN PyInt(IF x.v THEN 1 ELSE 0) ELSE x
\* number < 0
IsNegative(x) == AsNum(x).m < 0

\* result[key] = value on an insertion-ordered dict of <<key, value>> pairs
SetItem(ps, k, val) ==
    IF \E i \in DOMAIN ps : ps[i][1] = k
    THEN [i \in DOMAIN ps |-> IF ps[i][1] = k THEN <<k, val>> ELSE ps[i]]
    ELSE Append(ps, <<k, val>>)

\* dict.update(other)
RECURSIVE Update(_, _)
Update(ps, qs) ==
    IF qs = <<>> THEN ps
    ELSE Update(SetItem(ps, qs[1][1], qs[1][2]), Tail(qs))

-----------------------------------------------------------------------------
(* str helpers *)

Char(s, i) == SubSeq(s, i, i)
Digits == "0123456789"
IsDigit(c) == \E i \in 1..10 : Char(Digits, i) = c
DigitVal(c) == (CHOOSE i \in 1..10 : Char(Digits, i) = c) - 1

RECURSIVE DigitsVal(_)
DigitsVal(s) ==
    IF Len(s) = 0 THEN 0
    ELSE 10 * DigitsVal(SubSeq(s, 1, Len(s) - 1)) + DigitVal(Char(s, Len(s)))

AllDigits(s) == Len(s) > 0 /\ \A i \in 1..Len(s) : IsDigit(Char(s, i))

\* float(s) for strings made of an optional sign and decimal digits; any
\* other string of the model's alphabet is a ValueError.
float(s) ==
    IF AllDigits(s) THEN [ok |-> TRUE, num |-> PyInt(DigitsVal(s))]
    ELSE IF Len(s) > 1 /\ Char(s, 1) \in {"-", "+"} /\ AllDigits(SubSeq(s, 2, Len(s)))
         THEN [ok |-> TRUE,
               num |-> PyInt((IF Char(s, 1) = "-" THEN -1 ELSE 1) * DigitsVal(SubSeq(s, 2, Len(s))))]
         ELSE [ok |-> FALSE, num |-> PyInt(0)]

Upper == "ABCDEFGHIJKLMNOPQRSTUVWXYZ"
Lower == "abcdefghijklmnopqrstuvwxyz"
LowerChar(c) ==
    IF \E i \in 1..26 : Char(Upper, i) = c
    THEN Char(Lower, CHOOSE i \in 1..26 : Char(Upper, i) = c)
    ELSE c

\* str.lower()
RECURSIVE lower(_)
lower(s) == IF Len(s) = 0 THEN "" ELSE LowerChar(Char(s, 1)) \o lower(SubSeq(s, 2, Len(s)))

\* sub in s
Contains(s, sub) ==
    \E i \in 1..(Len(s) - Len(sub) + 1) : SubSeq(s, i, i + Len(sub) - 1) = sub

\* str(index)
IntStr(n) == ToString(n)

\* os.path.basename(path)
basename(path) ==
    LET slashes == {i \in 1..Len(path) : Char(path, i) = "/"}
    IN  IF slashes = {} THEN path
        ELSE SubSeq(path, (CHOOSE i \in slashes : \A j \in slashes : j <= i) + 1, Len(path))

\* os.path.splitext(name)[0]: cut at the last dot, unless only dots precede it
splitext0(name) ==
    LET dots == {i \in 1..Len(name) : Char(name, i) = "."}
        last == CHOOSE i \in dots : \A j \in dots : j <= i
    IN  IF dots = {} \/ (\A j \in 1..(last - 1) : Char(name, j) = ".") THEN name
        ELSE SubSeq(name, 1, last - 1)

-----------------------------------------------------------------------------
(* Log records and method outcomes *)

\* One logger call: its level, its message template, and the values the
\* f-string interpolates (name: key / field / path, index: line number, val:
\* logged value); entity is interpolated from self.entity.  rec is the
\* position of the record whose check_item call was running (-1 outside).
Entry(level, msg, name, idx, val) ==
    [level |-> level, msg |-> msg, name |-> name, index |-> idx, val |-> val,
     entity |-> entity, rec |-> -1]

\* What a method call did: the records it logged, the exception that left it
\* (NoExc when it returned) and the value it returned.
Out(l, e, r) == [log |-> l, exc |-> e, ret |-> r]
Ok(l) == Out(l, NoExc, None)

\* a ; b  -- b runs only if a returned
Then(a, b) == IF a.exc # NoExc THEN a ELSE Out(a.log \o b.log, b.exc, b.ret)

-----------------------------------------------------------------------------
(* DataQualityChecker.find_duplicates *)

\* item["$oid"]: the value, or the exception the subscript raises
Subscript(item, k) ==
    IF item.t = "dict"
    THEN IF Has(item, k) THEN [exc |-> NoExc, val |-> Get(item, k)]
         ELSE [exc |-> "KeyError", val |-> Null]
    ELSE [exc |-> "TypeError", val |-> Null]

\* hash(x) succeeds
Hashable(x) == x.t \notin {"dict", "list"}

\* Counter / dict key identity: True == 1 and False == 0
CounterKey(x) == AsNum(x)

\* Counter(oid_values).items(): <<value, freq>> in first-seen order
RECURSIVE Counter(_, _)
Counter(xs, acc) ==
    IF xs = <<>> THEN acc
    ELSE LET k == CounterKey(xs[1])
             hit == {i \in DOMAIN acc : CounterKey(acc[i][1]) = k}
         IN  Counter(Tail(xs),
                     IF hit = {} THEN Append(acc, <<xs[1], 1>>)
                     ELSE [i \in DOMAIN acc |->
                             IF i \in hit THEN <<acc[i][1], acc[i][2] + 1>> ELSE acc[i]])

FreqAtLeastOne(freq) == freq >= 1
\* line 56: freq > 1
IsDuplicateFreq(freq) == freq > 1

find_duplicates(ids) ==
    LET subs == [i \in DOMAIN ids |-> Subscript(ids[i], "$oid")]
        bad == {i \in DOMAIN ids : subs[i].exc # NoExc}
        first == CHOOSE i \in bad : \A j \in bad : i <= j
        oid_values == [i \in DOMAIN ids |-> subs[i].val]
        unhashable == {i \in DOMAIN ids : ~Hashable(oid_values[i])}
    IN  IF bad # {} THEN Out(<<>>, subs[first].exc, None)
        ELSE IF unhashable # {} THEN Out(<<>>, "TypeError", None)
        ELSE LET count == Counter(oid_values, <<>>)
                 dups == SelectSeq(count, LAMBDA p : IsDuplicateFreq(p[2]))
             IN  Out(<<>>, NoExc, [i \in DOMAIN dups |-> dups[i][1]])

-----------------------------------------------------------------------------
(* DataQualityChecker.check_negative_values *)

\* lines 77-82: the leaf branch; float() of a str, the value itself otherwise
LeafNumber(value) ==
    IF value.t = "str" THEN float(value.v) ELSE [ok |-> TRUE, num |-> value]

ScanLeaf(acc, new_path, value) ==
    LET c == LeafNumber(value)
    IN  IF c.ok /\ IsNumber(c.num) /\ IsNegative(c.num)
        THEN SetItem(acc, new_path, AsNum(c.num))
        ELSE acc

\* line 73
DictPath(path, key) == IF path # "" THEN path \o "." \o key ELSE key
\* line 85
ListPath(path, i) == path \o "[" \o IntStr(i) \o "]"

RECURSIVE check_negative_values(_, _)
RECURSIVE ScanDict(_, _, _)
RECURSIVE ScanList(_, _, _, _)

\* lines 72-82: for key, value in data.items()
ScanDict(ps, path, acc) ==
    IF ps = <<>> THEN acc
    ELSE LET key == ps[1][1]
             value == ps[1][2]
             new_path == DictPath(path, key)
         IN  ScanDict(Tail(ps), path,
                      IF value.t \in {"dict", "list"}
                      THEN Update(acc, check_negative_values(value, new_path))
                      ELSE ScanLeaf(acc, new_path, value))

\* lines 84-86: for index, item in enumerate(data)
ScanList(xs, path, i, acc) ==
    IF xs = <<>> THEN acc
    ELSE ScanList(Tail(xs), path, i + 1,
                  Update(acc, check_negative_values(xs[1], ListPath(path, i))))

\* The returned dict, as its <<path, number>> pairs in insertion order.
check_negative_values(d, path) ==
    IF d.t = "dict" THEN ScanDict(d.v, path, <<>>)
    ELSE IF d.t = "list" THEN ScanList(d.v, path, 0, <<>>)
    ELSE <<>>

-----------------------------------------------------------------------------
(* DataQualityChecker.check_negative_values_in_item *)

check_negative_values_in_item(item) ==
    LET result == Update(check_negative_values(item, ""),
                         check_negative_values(item, "rewardsReceiptItemList"))
    IN  IF result # <<>>
        THEN Ok(<<Entry("WARNING", "Negative values found:", "", -1, Null)>>
                \o [i \in DOMAIN result |->
                      Entry("INFO", "{key}: {value}", result[i][1], -1, result[i][2])])
        ELSE Ok(<<Entry("INFO", "No negative values found in {entity}.", "", -1, Null)>>)

-----------------------------------------------------------------------------
(* DataQualityChecker.check_schema_consistency *)

check_schema_consistency(item, idx, expected) ==
    IF Keys(item) # expected
    THEN Ok(<<Entry("WARNING", "Inconsistent schema in {entity} at line number {index}",
                    "", idx, Null)>>)
    ELSE Ok(<<>>)

-----------------------------------------------------------------------------
(* DataQualityChecker.check_date_format *)

\* The fields order matter - DO NOT CHANGE!
date_fields ==
    <<"lastLogin", "createDate", "dateScanned", "finishedDate", "modifyDate",
      "pointsAwardedDate", "purchaseDate">>

\* decimal digits of n > 0
RECURSIVE NumDigits(_)
NumDigits(n) == IF n < 10 THEN 1 ELSE 1 + NumDigits(n \div 10)

RECURSIVE Pow10(_)
Pow10(k) == IF k = 0 THEN 1 ELSE 10 * Pow10(k - 1)

\* a <= b for non-negative numbers m * 10^e
LeqMag(a, b) ==
    IF a.m = 0 THEN TRUE
    ELSE IF b.m = 0 THEN FALSE
    ELSE LET da == NumDigits(a.m) + a.e
             db == NumDigits(b.m) + b.e
         IN  IF da # db THEN da < db
             ELSE IF a.e >= b.e THEN a.m * Pow10(a.e - b.e) <= b.m
             ELSE a.m <= b.m * Pow10(b.e - a.e)

Abs(n) == [n EXCEPT !.m = IF n.m < 0 THEN -n.m ELSE n.m]

\* Limits of datetime.fromtimestamp(ms / 1000), in milliseconds: year 9999 /
\* year 1, the largest year C localtime() can return, and the range of time_t.
MaxDateMs == Num(253402300, 6)
MinDateMs == Num(62135596, 6)
MaxLocaltimeMs == Num(67768036, 12)
MaxTimeTMs == Num(92233720, 14)

\* line 191: timestamp / 1000, then datetime.fromtimestamp: the exception
\* raised, or NoExc.  A non-number cannot be divided (TypeError); a value
\* beyond time_t is an OverflowError; one for which C localtime() fails is
\* an OSError (errno EOVERFLOW); a year outside 1..9999 is a ValueError.
fromtimestamp(timestamp) ==
    IF ~IsNumber(timestamp) THEN "TypeError"
    ELSE LET ts == AsNum(timestamp)
             mag == Abs(ts)
         IN  IF ~LeqMag(mag, MaxTimeTMs) THEN "OverflowError"
             ELSE IF ~LeqMag(mag, MaxLocaltimeMs) THEN "OSError"
             ELSE IF ts.m >= 0 /\ ~LeqMag(mag, MaxDateMs) THEN "ValueError"
             ELSE IF ts.m < 0 /\ ~LeqMag(mag, MinDateMs) THEN "ValueError"
             ELSE NoExc

\* line 193: except (ValueError, TypeError, OverflowError)
CaughtByDateCheck(e) == e \in {"ValueError", "TypeError", "OverflowError"}

\* line 201: field in date_fields[1:]
RequiredForReceipts(field) == field \in Range(SubSeq(date_fields, 2, Len(date_fields)))
\* line 205: field in date_fields[:1]
RequiredForUsers(field) == field \in Range(SubSeq(date_fields, 1, 1))

\* lines 186-208: the loop body for one field
CheckDateField(item, idx, field) ==
    IF Has(item, field)
    THEN IF Get(item, field).t = "dict" /\ Has(Get(item, field), "$date")
         THEN LET timestamp == Get(Get(item, field), "$date")
                  e == fromtimestamp(timestamp)
              IN  IF e = NoExc
                  THEN Ok(<<Entry("INFO", "{field}: Valid date - {date} in {entity}",
                                  field, -1, timestamp)>>)
                  ELSE IF CaughtByDateCheck(e)
                  THEN Ok(<<Entry("WARNING", "{field}: Invalid date format in {entity}",
                                  field, -1, Null)>>)
                  ELSE Out(<<>>, e, None)
         ELSE Ok(<<Entry("WARNING",
                         "{field}: Incorrect date format found in {entity} at line number {index}",
                         field, idx, Null)>>)
    ELSE IF entity = "receipts" /\ RequiredForReceipts(field)
         THEN Ok(<<Entry("WARNING",
                         "Missing date field '{field}' in receipts data at line number {index}",
                         field, idx, Null)>>)
         ELSE IF entity = "users" /\ RequiredForUsers(field)
         THEN Ok(<<Entry("WARNING",
                         "Missing date field '{field}' in users data at line number {index}",
                         field, idx, Null)>>)
         ELSE Ok(<<>>)

RECURSIVE DateLoop(_, _, _)
DateLoop(item, idx, fields) ==
    IF fields = <<>> THEN Ok(<<>>)
    ELSE Then(CheckDateField(item, idx, fields[1]), DateLoop(item, idx, Tail(fields)))

check_date_format(item, idx) == DateLoop(item, idx, date_fields)

-----------------------------------------------------------------------------
(* DataQualityChecker.check_negative_numeric_fields, check_empty_list *)

indicators == <<"count", "amount", "price", "quantity">>

check_negative_numeric_fields(key, value, idx) ==
    IF (\E i \in DOMAIN indicators : Contains(lower(key), indicators[i])) /\ IsNegative(value)
    THEN Ok(<<Entry("WARNING",
                    "Negative value for {key} found in {entity} at line number  {index}",
                    key, idx, Null)>>)
    ELSE Ok(<<>>)

check_empty_list(key, value, idx) ==
    IF value.v = <<>>
    THEN Ok(<<Entry("WARNING", "Empty list for {key} in {entity} at line number {index}",
                    key, idx, Null)>>)
    ELSE Ok(<<>>)

-----------------------------------------------------------------------------
(* DataQualityChecker.check_id_type *)

IdTypeNoOidTypeCheck(item, idx) ==
    IF Has(item, "_id") /\ (Get(item, "_id").t # "dict" \/ ~Has(Get(item, "_id"), "$oid"))
    THEN Ok(<<Entry("WARNING", "Invalid _id type found in {entity} at line number {index}",
                    "", idx, Null)>>)
    ELSE Ok(<<>>)

check_id_type(item, idx) ==
    IF Has(item, "_id")
    THEN IF Get(item, "_id").t # "dict" \/ ~Has(Get(item, "_id"), "$oid")
         THEN Ok(<<Entry("WARNING", "Invalid _id type found in {entity} at line number {index}",
                         "", idx, Null)>>)
         ELSE IF Get(Get(item, "_id"), "$oid").t # "str"
         THEN Ok(<<Entry("WARNING", "Invalid $oid type in _id in {entity} at line number {index}",
                         "", idx, Null)>>)
         ELSE Ok(<<>>)
    ELSE Ok(<<>>)

-----------------------------------------------------------------------------
(* DataQualityChecker.check_field_types *)

\* lines 153-162: the dispatch on one key / value pair
CheckField(item, idx, key, value) ==
    IF value.t = "str" THEN check_date_format(item, idx)
    ELSE IF IsNumber(value) THEN check_negative_numeric_fields(key, value, idx)
    ELSE IF value.t = "list" THEN check_empty_list(key, value, idx)
    ELSE IF value.t = "null"
    THEN Ok(<<Entry("WARNING", "Null value for {key} found in {entity} at line number {index}",
                    key, idx, Null)>>)
    ELSE Ok(<<>>)

RECURSIVE FieldLoop(_, _, _)
FieldLoop(item, idx, ps) ==
    IF ps = <<>> THEN Ok(<<>>)
    ELSE Then(CheckField(item, idx, ps[1][1], ps[1][2]), FieldLoop(item, idx, Tail(ps)))

check_field_types(item, idx) ==
    Then(FieldLoop(item, idx, item.v), check_id_type(item, idx))

-----------------------------------------------------------------------------
(* DataQualityChecker.check_id_uniqueness *)

IdUniquenessIgnoringBaseline(d, expected) ==
    LET with_id == SelectSeq(d, LAMBDA item : Has(item, "_id"))
        dup == find_duplicates([i \in DOMAIN with_id |-> Get(with_id[i], "_id")])
    IN  IF dup.exc # NoExc THEN Out(<<>>, dup.exc, None)
        ELSE IF dup.ret # <<>>
        THEN Ok(<<Entry("WARNING", "Duplicate OIDs found in {entity}", "", -1, Null)>>
                \o [i \in DOMAIN dup.ret |-> Entry("INFO", "{oid}", "", -1, dup.ret[i])])
        ELSE Ok(<<Entry("INFO", "No duplicates found in {entity}.", "", -1, Null)>>)

check_id_uniqueness(d, expected) ==
    IF "_id" \in expected
    THEN LET with_id == SelectSeq(d, LAMBDA item : Has(item, "_id"))
             ids == [i \in DOMAIN with_id |-> Get(with_id[i], "_id")]
             dup == find_duplicates(ids)
         IN  IF dup.exc # NoExc THEN Out(<<>>, dup.exc, None)
             ELSE IF dup.ret # <<>>
             THEN Ok(<<Entry("WARNING", "Duplicate OIDs found in {entity}", "", -1, Null)>>
                     \o [i \in DOMAIN dup.ret |-> Entry("INFO", "{oid}", "", -1, dup.ret[i])])
             ELSE Ok(<<Entry("INFO", "No duplicates found in {entity}.", "", -1, Null)>>)
    ELSE Ok(<<>>)

-----------------------------------------------------------------------------
(* DataQualityChecker.check_item *)

check_item(item, idx, expected) ==
    Then(check_negative_values_in_item(item),
         Then(check_schema_consistency(item, idx, expected),
              check_field_types(item, idx)))

\* the records of l, marked as emitted while record i was being checked
During(l, i) == [j \in DOMAIN l |-> [l[j] EXCEPT !.rec = i]]

-----------------------------------------------------------------------------
(* Inputs: the files main may be pointed at *)

\* A line of the file: JSON text that json.loads decodes to val, or text that
\* is not JSON.
Decodes(val) == [json |-> TRUE, val |-> val]
NotJson == [json |-> FALSE, val |-> Null]

Oid(s) == Dict(<< <<"$oid", Str(s)>> >>)
Date(ts) == Dict(<< <<"$date", ts>> >>)

RECURSIVE SeqsUpTo(_, _)
\* the sequences over S of length at most n
SeqsUpTo(S, n) ==
    IF n = 0 THEN {<<>>}
    ELSE LET shorter == SeqsUpTo(S, n - 1)
         IN  shorter \cup {Append(q, x) : q \in shorter, x \in S}

\* Records (one JSON object per line) carrying the anomalies the checks look
\* for: a duplicate id, a negative value, schema drift, a string field, a
\* good, a misshapen and an out-of-range date, an empty list, a null, an _id
\* that is a plain string, an _id without $oid, and a record without _id.
MainRecords ==
    { Dict(<< <<"_id", Oid("a")>>, <<"value", PyInt(10)>> >>),
      Dict(<< <<"_id", Oid("a")>>, <<"value", PyInt(-5)>> >>),
      Dict(<< <<"_id", Oid("b")>>, <<"name", Str("x")>>,
              <<"createDate", Date(Num(1611955498, 3))>> >>),
      Dict(<< <<"_id", Str("abc")>>, <<"value", PyInt(1)>> >>),
      Dict(<< <<"_id", Dict(<<>>)>>, <<"value", PyInt(1)>> >>),
      Dict(<< <<"_id", Oid("b")>>, <<"createDate", Str("2021-01-29")>>,
              <<"items", List(<<>>)>>, <<"brandCode", Null>> >>),
      Dict(<< <<"value", PyInt(3)>> >>),
      Dict(<< <<"_id", Oid("c")>>, <<"name", Str("x")>>,
              <<"purchaseDate", Date(Num(1, 20))>> >>) }

MainLines == {Decodes(r) : r \in MainRecords} \cup {NotJson}

\* src/main.py line 19
paths == <<"data/brands.json", "data/users.json", "data/receipts.json">>

-----------------------------------------------------------------------------
(* main(file_path): DataQualityChecker(file_path), load_data(),             *)
(* check_json_quality()                                                     *)

\* DataQualityChecker.__init__ has run
Init ==
    /\ file_path \in Range(paths)
    /\ file \in {Missing} \cup {OnDisk(ls) : ls \in SeqsUpTo(MainLines, MaxLines)}
    /\ entity = splitext0(basename(file_path))
    /\ data = None
    /\ expected_keys = {}
    /\ index = 0
    /\ log = <<>>
    /\ exc = NoExc
    /\ pc = "constructed"
    /\ arg = None
    /\ ret = None

LoadWithoutEmptyWarning(f) ==
    IF ~f.exists
    THEN Out(<<Entry("ERROR", "File not found: {entity}", "", -1, Null)>>,
             "FileNotFoundError", None)
    ELSE IF \E i \in DOMAIN f.lines : ~f.lines[i].json
    THEN Out(<<Entry("WARNING", "Invalid JSON structure", "", -1, Null)>>,
             "JSONDecodeError", None)
    ELSE Out(<<>>, NoExc, List([i \in DOMAIN f.lines |-> f.lines[i].val]))

\* load_data's outcome on file f; ret is the list assigned to self.data
load_data(f) ==
    IF ~f.exists
    THEN Out(<<Entry("ERROR", "File not found: {entity}", "", -1, Null)>>,
             "FileNotFoundError", None)
    ELSE IF \E i \in DOMAIN f.lines : ~f.lines[i].json
    THEN Out(<<Entry("WARNING", "Invalid JSON structure", "", -1, Null)>>,
             "JSONDecodeError", None)
    ELSE LET loaded == [i \in DOMAIN f.lines |-> f.lines[i].val]
         IN  Out(IF loaded = <<>>
                 THEN <<Entry("WARNING", "The file is empty", "", -1, Null)>>
                 ELSE <<>>,
                 NoExc, List(loaded))

LoadData ==
    /\ pc = "constructed"
    /\ LET out == load_data(file)
       IN  /\ log' = log \o out.log
           /\ exc' = out.exc
           /\ data' = IF out.exc = NoExc THEN out.ret ELSE data
           /\ pc' = IF out.exc = NoExc THEN "loaded" ELSE "raised"
    /\ UNCHANGED <<file_path, file, entity, expected_keys, index, arg, ret>>

\* line 92: if not self.data
NotData(d) == d.t = "None" \/ d.v = <<>>

\* check_json_quality, lines 92-95
CheckBegin ==
    /\ pc = "loaded"
    /\ IF NotData(data)
       THEN /\ pc' = "returned"
            /\ UNCHANGED <<expected_keys, index>>
       ELSE /\ expected_keys' = Keys(data.v[1])
            /\ index' = 0
            /\ pc' = "checking"
    /\ UNCHANGED <<file_path, file, entity, data, log, exc, arg, ret>>

\* check_json_quality, lines 97-98: one iteration of the loop
CheckItem ==
    /\ pc = "checking"
    /\ index < Len(data.v)
    /\ LET out == check_item(data.v[index + 1], index, expected_keys)
       IN  /\ log' = log \o During(out.log, index)
           /\ exc' = out.exc
           /\ pc' = IF out.exc = NoExc THEN "checking" ELSE "raised"
           /\ index' = IF out.exc = NoExc THEN index + 1 ELSE index
    /\ UNCHANGED <<file_path, file, entity, data, expected_keys, arg, ret>>

\* check_json_quality, line 100
CheckIdUniqueness ==
    /\ pc = "checking"
    /\ index = Len(data.v)
    /\ LET out == check_id_uniqueness(data.v, expected_keys)
       IN  /\ log' = log \o out.log
           /\ exc' = out.exc
           /\ pc' = IF out.exc = NoExc THEN "unique_checked" ELSE "raised"
    /\ UNCHANGED <<file_path, file, entity, data, expected_keys, index, arg, ret>>

\* check_json_quality, line 102
Completed ==
    /\ pc = "unique_checked"
    /\ log' = Append(log, Entry("INFO", "Data quality check completed", "", -1, Null))
    /\ pc' = "returned"
    /\ UNCHANGED <<file_path, file, entity, data, expected_keys, index, exc, arg, ret>>

Next == LoadData \/ CheckBegin \/ CheckItem \/ CheckIdUniqueness \/ Completed

Spec == Init /\ [][Next]_vars

-----------------------------------------------------------------------------
(* A method called on its own, on a constructed checker, as the tests call  *)
(* them (src/tests/test_data_quality_check.py)                              *)

Entities == {splitext0(basename(paths[i])) : i \in DOMAIN paths}

\* The checker holds entity e and data d, and method is about to be called on a.
Called(e, d, a) ==
    /\ file_path = "data/" \o e \o ".json"
    /\ file = OnDisk(IF d.t = "list" THEN [i \in DOMAIN d.v |-> Decodes(d.v[i])] ELSE <<>>)
    /\ entity = e
    /\ data = d
    /\ expected_keys = {}
    /\ index = 0
    /\ log = <<>>
    /\ exc = NoExc
    /\ pc = "call"
    /\ arg = a
    /\ ret = None

\* The call of method ends as out says.
Return(method, out) ==
    /\ log' = log \o out.log
    /\ exc' = out.exc
    /\ ret' = [of |-> method, val |-> out.ret]
    /\ pc' = IF out.exc = NoExc THEN "returned" ELSE "raised"
    /\ UNCHANGED <<file_path, file, entity, data, expected_keys, index, arg>>

(* find_duplicates on a list of Wrapped Identifiers *)

OidValues == {"1", "2", "3"}
WrappedIds == {Oid(s) : s \in OidValues}

InitFindDuplicates ==
    \E ids \in SeqsUpTo(WrappedIds, MaxIds) : Called("brands", None, ids)

CallFindDuplicates ==
    /\ pc = "call"
    /\ Return("find_duplicates", find_duplicates(arg))

SpecFindDuplicates == InitFindDuplicates /\ [][CallFindDuplicates]_vars

(* check_id_type on one record *)

IdShapes ==
    { Str("abc"), PyInt(5), Null, List(<<>>), Dict(<<>>), Oid("abc"),
      Dict(<< <<"$oid", PyInt(123)>> >>), Dict(<< <<"$oid", Null>> >>),
      Dict(<< <<"$oid", List(<<>>)>> >>), Dict(<< <<"oid", Str("abc")>> >>),
      Dict(<< <<"$oid", Str("abc")>>, <<"v", PyInt(1)>> >>) }

IdRecords ==
    {Dict(<< <<"value", PyInt(1)>> >>)}
    \cup {Dict(<< <<"_id", x>>, <<"value", PyInt(1)>> >>) : x \in IdShapes}
    \cup {Dict(<< <<"value", PyInt(1)>>, <<"_id", x>> >>) : x \in IdShapes}

InitIdType ==
    \E e \in Entities, item \in IdRecords, i \in 0..MaxIndex :
        Called(e, List(<<item>>), [item |-> item, index |-> i])

CallCheckIdType ==
    /\ pc = "call"
    /\ Return("check_id_type", check_id_type(arg.item, arg.index))

SpecIdType == InitIdType /\ [][CallCheckIdType]_vars

(* check_id_uniqueness on a loaded collection whose _id fields are Wrapped  *)
(* Identifiers                                                              *)

UniqRecords ==
    {Dict(<< <<"_id", Oid(s)>>, <<"value", PyInt(1)>> >>) : s \in {"1", "2"}}
    \cup {Dict(<< <<"value", PyInt(1)>> >>),
          Dict(<< <<"value", PyInt(1)>>, <<"_id", Oid("1")>> >>)}

InitIdUniqueness ==
    \E d \in SeqsUpTo(UniqRecords, MaxRecords) \ {<<>>} :
        Called("brands", List(d), Keys(d[1]))

CallCheckIdUniqueness ==
    /\ pc = "call"
    /\ Return("check_id_uniqueness", check_id_uniqueness(data.v, arg))

SpecIdUniqueness == InitIdUniqueness /\ [][CallCheckIdUniqueness]_vars

(* check_negative_values on nested structures *)

ScanKeys == {"a", "a.b", "b", "rewardsReceiptItemList"}
ScanLeaves == {PyInt(-1), PyInt(2), Str("-3"), Str("x")}

DistinctKeys(ps) == \A i, j \in DOMAIN ps : ps[i][1] = ps[j][1] => i = j

\* dicts of at most n entries with keys in K and values in V; lists likewise
DictsOver(K, V, n) ==
    {Dict(ps) : ps \in {q \in SeqsUpTo(K \X V, n) : DistinctKeys(q)}}
ListsOver(V, n) == {List(xs) : xs \in SeqsUpTo(V, n)}

InnerValues ==
    ScanLeaves \cup DictsOver(ScanKeys, ScanLeaves, MaxInner)
               \cup ListsOver(ScanLeaves, MaxInner)

InitNegative ==
    \E d \in DictsOver(ScanKeys, InnerValues, MaxItems) \cup ListsOver(InnerValues, MaxItems) :
        Called("receipts", None, d)

CallCheckNegativeValues ==
    /\ pc = "call"
    /\ Return("check_negative_values", Out(<<>>, NoExc, check_negative_values(arg, "")))

SpecNegative == InitNegative /\ [][CallCheckNegativeValues]_vars

(* check_negative_values_in_item on one record: scalar fields, and          *)
(* optionally a rewardsReceiptItemList of item mappings                     *)

ItemKeys == {"a", "b"}

InitNegativeItem ==
    LET fields == DictsOver(ItemKeys, ScanLeaves, MaxItems)
        lists == ListsOver(DictsOver(ItemKeys, ScanLeaves, MaxInner), MaxItems)
        records == fields \cup {Dict(Append(f.v, <<"rewardsReceiptItemList", l>>)) :
                                  f \in fields, l \in lists}
    IN  \E item \in records : Called("receipts", List(<<item>>), item)

CallCheckNegativeValuesInItem ==
    /\ pc = "call"
    /\ Return("check_negative_values_in_item", check_negative_values_in_item(arg))

SpecNegativeItem == InitNegativeItem /\ [][CallCheckNegativeValuesInItem]_vars

(* check_date_format and check_field_types on one record *)

DateValues ==
    { Date(Num(1611955498, 3)), Date(Num(1, 17)), Date(Num(1, 20)), Date(Str("x")),
      Str("2021-01-29") }

\* the date fields present: increasing positions of date_fields, with values
DateParts ==
    LET picks == {q \in SeqsUpTo(DOMAIN date_fields, MaxDateFields) :
                    \A i \in DOMAIN q : i > 1 => q[i - 1] < q[i]}
    IN  UNION {{[i \in DOMAIN q |-> <<date_fields[q[i]], vals[i]>>] :
                  vals \in [DOMAIN q -> DateValues]} : q \in picks}

OtherParts ==
    { <<>>,
      << <<"name", Str("x")>> >>,
      << <<"name", Str("x")>>, <<"note", Str("y")>> >>,
      << <<"itemCount", PyInt(-1)>>, <<"tags", List(<<>>)>>, <<"brandCode", Null>>,
         <<"active", Bool(TRUE)>>, <<"info", Dict(<<>>)>> >> }

InitDate ==
    \E e \in Entities, o \in OtherParts, d \in DateParts, i \in 0..MaxIndex :
        Called(e, List(<<Dict(o \o d)>>), [item |-> Dict(o \o d), index |-> i])

CallCheckDateFormat ==
    /\ pc = "call"
    /\ Return("check_date_format", check_date_format(arg.item, arg.index))

CallCheckFieldTypes ==
    /\ pc = "call"
    /\ Return("check_field_types", check_field_types(arg.item, arg.index))

SpecDate == InitDate /\ [][CallCheckDateFormat \/ CallCheckFieldTypes]_vars

-----------------------------------------------------------------------------
(* Properties *)

Finished == pc \in {"returned", "raised"}
LoadedNonEmpty == data.t = "list" /\ data.v # <<>>
IsCompletion(e) == e.msg = "Data quality check completed"

\* C1: over any loaded, non-empty collection of mapping records, whatever
\* anomalies they carry, check_json_quality raises nothing and ends by
\* emitting the 'Data quality check completed' notice.
C1_AnomaliesAreNonFatal ==
    (Finished /\ LoadedNonEmpty) =>
        /\ exc = NoExc
        /\ pc = "returned"
        /\ log # <<>> /\ IsCompletion(log[Len(log)])

\* C2: find_duplicates on a list of Wrapped Identifiers returns exactly the
\* $oid values that occur more than once, each once, in the order of their
\* first occurrence; nothing when all values are distinct.
C2_FindDuplicates ==
    pc # "raised" /\
    (pc = "returned" =>
        LET oids == [i \in DOMAIN arg |-> Get(arg[i], "$oid")]
            Occurrences(x) == {i \in DOMAIN oids : oids[i] = x}
            First(x) == CHOOSE i \in Occurrences(x) : \A j \in Occurrences(x) : i <= j
            r == ret.val
        IN  /\ \A i \in DOMAIN r : Cardinality(Occurrences(r[i])) > 1
            /\ \A x \in Range(oids) : Cardinality(Occurrences(x)) > 1 => x \in Range(r)
            /\ \A i, j \in DOMAIN r : i < j => First(r[i]) < First(r[j])
            /\ (\A x \in Range(oids) : Cardinality(Occurrences(x)) = 1) => r = <<>>)

\* two values are duplicated, the one seen first not the smaller, a third occurs once
C2_Witness ==
    pc = "returned" /\ ret.val = <<Str("2"), Str("1")>> /\ Oid("3") \in Range(arg)

\* the structural positions of the leaves of a nested value, each with the
\* path its position spells (keys joined with '.', list positions as '[i]')
RECURSIVE LeavesOf(_, _, _)
LeavesOf(d, addr, path) ==
    IF d.t = "dict"
    THEN UNION {LeavesOf(d.v[i][2], Append(addr, [key |-> d.v[i][1], pos |-> -1]),
                         DictPath(path, d.v[i][1])) : i \in DOMAIN d.v}
    ELSE IF d.t = "list"
    THEN UNION {LeavesOf(d.v[i], Append(addr, [key |-> "", pos |-> i - 1]),
                         ListPath(path, i - 1)) : i \in DOMAIN d.v}
    ELSE {[addr |-> addr, path |-> path, val |-> d]}

\* the number a leaf holds, if it is a negative number or a string that
\* reads as one
LeafIsNegative(l) ==
    \/ l.val.t = "num" /\ l.val.m < 0
    \/ l.val.t = "str" /\ float(l.val.v).ok /\ float(l.val.v).num.m < 0
LeafValue(l) == IF l.val.t = "str" THEN float(l.val.v).num ELSE l.val
NegativeLeaves(d) == {l \in LeavesOf(d, <<>>, "") : LeafIsNegative(l)}

\* C3: check_negative_values returns one entry per negative leaf, keyed by
\* the leaf's path and valued by its number; different negative leaves never
\* share an entry, and the result is empty when no leaf is negative.
C3_OneEntryPerNegativeLeaf ==
    (pc = "returned" /\ ret.of = "check_negative_values") =>
        LET r == ret.val
            NL == NegativeLeaves(arg)
        IN  /\ Len(r) = Cardinality(NL)
            /\ \A l \in NL : \E i \in DOMAIN r : r[i] = <<l.path, LeafValue(l)>>
            /\ \A i \in DOMAIN r : \E l \in NL : r[i] = <<l.path, LeafValue(l)>>

IsMissingDate(e) ==
    e.msg \in {"Missing date field '{field}' in receipts data at line number {index}",
               "Missing date field '{field}' in users data at line number {index}"}

\* C4: check_date_format warns 'Missing date field' for a recognized field f
\* exactly when f is absent and the entity is "receipts" and f is not
\* lastLogin, or the entity is "users" and f is lastLogin.
C4_MissingDateFieldPolicy ==
    (Finished /\ ret.of = "check_date_format") =>
        \A f \in Range(date_fields) :
            (\E i \in DOMAIN log : IsMissingDate(log[i]) /\ log[i].name = f)
            <=> /\ ~Has(arg.item, f)
                /\ \/ entity = "receipts" /\ f # "lastLogin"
                   \/ entity = "users" /\ f = "lastLogin"

IdIsWellFormed(id) == id.t = "dict" /\ Has(id, "$oid") /\ Get(id, "$oid").t = "str"

\* C5: check_id_type emits exactly one warning, naming the line index, when
\* the record has an _id that is not a mapping, or lacks $oid, or whose $oid
\* is not a string; otherwise (well-formed _id, or no _id) it emits nothing.
C5_IdShape ==
    pc # "raised" /\
    (pc = "returned" =>
        IF Has(arg.item, "_id") /\ ~IdIsWellFormed(Get(arg.item, "_id"))
        THEN /\ Len(log) = 1
             /\ log[1].level = "WARNING"
             /\ log[1].index = arg.index
        ELSE log = <<>>)

\* a mapping _id whose $oid is present but not a string has been reported
C5_Witness ==
    /\ pc = "returned"
    /\ Has(arg.item, "_id")
    /\ Get(arg.item, "_id").t = "dict"
    /\ Has(Get(arg.item, "_id"), "$oid")
    /\ Get(Get(arg.item, "_id"), "$oid").t = "num"
    /\ Len(log) = 1

\* the $oid values carried by more than one record of the collection
DuplicatedOids(d) ==
    LET with_id == {i \in DOMAIN d : Has(d[i], "_id")}
        holders(x) == {i \in with_id : Get(d[i], "_id") = x}
    IN  {Get(x, "$oid") : x \in {y \in {Get(d[i], "_id") : i \in with_id} :
                                     Cardinality(holders(y)) > 1}}

\* C6: over a collection whose _id fields are Wrapped Identifiers,
\* check_id_uniqueness emits, when record 0 has _id, the 'Duplicate OIDs
\* found' warning followed by each duplicated value if some value is carried
\* by more than one record and otherwise the single 'No duplicates found'
\* message; when record 0 has no _id it emits nothing.
C6_IdUniqueness ==
    pc # "raised" /\
    (pc = "returned" =>
        LET dups == DuplicatedOids(data.v)
        IN  IF "_id" \in Keys(data.v[1])
            THEN IF dups # {}
                 THEN /\ Len(log) = 1 + Cardinality(dups)
                      /\ log[1].level = "WARNING"
                      /\ log[1].msg = "Duplicate OIDs found in {entity}"
                      /\ \A i \in 2..Len(log) : log[i].msg = "{oid}"
                      /\ {log[i].val : i \in 2..Len(log)} = dups
                 ELSE /\ Len(log) = 1
                      /\ log[1].msg = "No duplicates found in {entity}."
            ELSE log = <<>>)

\* two values are duplicated and both have been reported after the warning
C6_Witness ==
    /\ pc = "returned"
    /\ Cardinality(DuplicatedOids(data.v)) = 2
    /\ Len(log) = 3

FileIsEmpty == file.exists /\ file.lines = <<>>

\* C7: on an empty file load_data emits exactly one 'file is empty' warning
\* and raises nothing, and check_json_quality then returns at once: no check
\* runs, nothing more is emitted (no finding, no completion notice), nothing
\* is raised.
C7_EmptyInput ==
    FileIsEmpty =>
        /\ exc = NoExc
        /\ pc \in {"constructed", "loaded", "returned"}
        /\ pc = "constructed" => log = <<>>
        /\ pc \in {"loaded", "returned"} =>
              /\ Len(log) = 1
              /\ log[1].level = "WARNING"
              /\ log[1].msg = "The file is empty"

\* check_json_quality has returned on the empty collection
C7_Witness == FileIsEmpty /\ pc = "returned" /\ data = List(<<>>)

IsNegativeReport(e) ==
    e.msg \in {"Negative values found:", "{key}: {value}",
               "No negative values found in {entity}."}
IsSchemaFinding(e) == e.msg = "Inconsistent schema in {entity} at line number {index}"
IsUniquenessReport(e) ==
    e.msg \in {"Duplicate OIDs found in {entity}", "No duplicates found in {entity}."}
\* the place of a record's finding in check_item's order
Phase(e) == IF IsNegativeReport(e) THEN 1 ELSE IF IsSchemaFinding(e) THEN 2 ELSE 3

\* C8: in a run of check_json_quality over a non-empty collection the
\* baseline is the key set of record 0; records are checked in loaded order,
\* every finding of a record before any finding of the next; within a record
\* the negative-value report precedes the schema finding, which precedes the
\* field-type findings; the id-uniqueness check runs once, after the last
\* record; and the completion notice is emitted exactly once, last.
C8_RunOrder ==
    (Finished /\ LoadedNonEmpty) =>
        /\ expected_keys = Keys(data.v[1])
        /\ \A r \in 0..(Len(data.v) - 1) : \E i \in DOMAIN log : log[i].rec = r
        /\ \A i, j \in DOMAIN log :
              (i < j /\ log[i].rec >= 0 /\ log[j].rec >= 0) =>
                  /\ log[i].rec <= log[j].rec
                  /\ log[i].rec = log[j].rec => Phase(log[i]) <= Phase(log[j])
        /\ \A i, j \in DOMAIN log : (log[i].rec >= 0 /\ log[j].rec < 0) => i < j
        /\ Cardinality({i \in DOMAIN log : IsUniquenessReport(log[i])})
              = (IF "_id" \in expected_keys THEN 1 ELSE 0)
        /\ Cardinality({i \in DOMAIN log : IsCompletion(log[i])}) = 1
        /\ IsCompletion(log[Len(log)])

\* C9: check_negative_values_in_item reports the merge of the whole-record
\* scan and the scan scoped to rewardsReceiptItemList: a negative leaf outside
\* the rewardsReceiptItemList field is in the merged result under exactly one
\* path; the record gets one report, 'No negative values found' exactly when
\* neither scan finds anything, and otherwise the 'Negative values found:'
\* warning followed by one line per merged entry.
C9_MergedNegativeReport ==
    (pc = "returned" /\ ret.of = "check_negative_values_in_item") =>
        LET whole == check_negative_values(arg, "")
            scoped == check_negative_values(arg, "rewardsReceiptItemList")
            lines == Tail(log)
            outside == {l \in NegativeLeaves(arg) : l.addr[1].key # "rewardsReceiptItemList"}
            Names(l) == {l.path, DictPath("rewardsReceiptItemList", l.path)}
        IN  /\ log # <<>>
            /\ IF whole = <<>> /\ scoped = <<>>
               THEN log = <<Entry("INFO", "No negative values found in {entity}.", "", -1, Null)>>
               ELSE /\ log[1] = Entry("WARNING", "Negative values found:", "", -1, Null)
                    /\ \A i \in DOMAIN lines : lines[i].msg = "{key}: {value}"
                    /\ \A i, j \in DOMAIN lines : lines[i].name = lines[j].name => i = j
                    /\ {lines[i].name : i \in DOMAIN lines}
                         = {whole[i][1] : i \in DOMAIN whole}
                           \cup {scoped[i][1] : i \in DOMAIN scoped}
            /\ \A l \in outside :
                  Cardinality({i \in DOMAIN lines : lines[i].name \in Names(l)}) = 1

IsDateFinding(e) ==
    \/ IsMissingDate(e)
    \/ e.msg \in {"{field}: Valid date - {date} in {entity}",
                  "{field}: Invalid date format in {entity}",
                  "{field}: Incorrect date format found in {entity} at line number {index}"}

\* C10: check_field_types runs the whole-record date check once per top-level
\* string-valued field: with k such fields every date finding of the record
\* is emitted k times, and with none no date finding is emitted at all.
C10_DateCheckPerStringField ==
    (Finished /\ ret.of = "check_field_types") =>
        LET k == Cardinality({i \in DOMAIN arg.item.v : arg.item.v[i][2].t = "str"})
            once == check_date_format(arg.item, arg.index).log
            Times(q, e) == Cardinality({i \in DOMAIN q : q[i] = e})
        IN  /\ Cardinality({i \in DOMAIN log : IsDateFinding(log[i])}) = k * Len(once)
            /\ \A e \in Range(once) : Times(log, e) = k * Times(once, e)

====
